---- MODULE Spec2Model ----
(***************************************************************************)
(* A model of llm-news-curator: the segmentation and citation attribution  *)
(* of NewsCurator (src/src/news_curator.py), the grounding metadata        *)
(* extractor, the per-topic loop of main (src/src/main.py) with the Slack  *)
(* calls of SlackPoster (src/src/slack_poster.py), the history reader      *)
(* fetch_recent_urls with the exclusion section built from its result, and *)
(* the block builder _build_blocks.                                        *)
(*                                                                         *)
(* A text is a sequence of one-character strings, so that str.split,       *)
(* str.strip and the substring test `in` are computed character by         *)
(* character.                                                              *)
(***************************************************************************)
EXTENDS Integers, Sequences, FiniteSets, TLC

VARIABLES
    pc,         \* position of the modelled run
    text,       \* response.text handed to _parse_news_items
    chunks,     \* grounding chunks: sequence of [title, uri]
    supports,   \* grounding supports: sequence of [segment, chunk_indices]
    items,      \* the NewsItem list returned by _parse_news_items
    response,   \* the model response handed to _extract_grounding_metadata
    warned,     \* _extract_grounding_metadata logged its warning (caught an exception)
    run,        \* the state of main(): its locals, its exit status, the external calls made
    messages,   \* the messages conversations_history returns for the channel
    recent,     \* the call of fetch_recent_urls: how the API call ended, what it returned
    exclude_section,  \* the exclusion section fetch_news puts into the prompt
    header,     \* SlackPoster.header, the topic's header text
    blocks      \* the Block Kit blocks returned by _build_blocks

\* The state of the Slack side: the history reader, the prompt section built
\* from its result, and the block builder.
slackVars == <<messages, recent, exclude_section, header, blocks>>

vars == <<pc, text, chunks, supports, items, response, warned, run,
          messages, recent, exclude_section, header, blocks>>

----------------------------------------------------------------------------
(* Bounds of the model                                                     *)

MaxPieces == 5
MaxChunks == 2
MaxSupports == 2
MaxCandidates == 2
MaxTopics == 3

----------------------------------------------------------------------------
(* Text primitives: str.split, str.strip, `in`                             *)

SEPARATOR == <<"-", "-", "-">>

MIN_SEGMENT_TEXT_LENGTH == 10

\* The characters str.strip() removes that occur in the model's texts.
Whitespace == {" ", "\n"}

\* pat occurs in s at position i (1-based).
OccursAt(s, pat, i) ==
    /\ i >= 1
    /\ i + Len(pat) - 1 <= Len(s)
    /\ \A k \in 1..Len(pat) : s[i + k - 1] = pat[k]

\* needle in hay
Contains(hay, needle) ==
    \E i \in 1..(Len(hay) - Len(needle) + 1) : OccursAt(hay, needle, i)

\* The leftmost occurrence of sep in s, 0 when there is none.
FirstOccurrence(s, sep) ==
    IF Contains(s, sep)
    THEN CHOOSE i \in 1..Len(s) :
            /\ OccursAt(s, sep, i)
            /\ \A j \in 1..(i - 1) : ~OccursAt(s, sep, j)
    ELSE 0

\* s.split(sep): leftmost, non-overlapping occurrences; always at least one part.
RECURSIVE Split(_, _)
Split(s, sep) ==
    LET i == FirstOccurrence(s, sep)
    IN  IF i = 0
        THEN <<s>>
        ELSE <<SubSeq(s, 1, i - 1)>> \o Split(SubSeq(s, i + Len(sep), Len(s)), sep)

\* s.strip()
Strip(s) ==
    LET keep == {i \in 1..Len(s) : s[i] \notin Whitespace}
    IN  IF keep = {}
        THEN <<>>
        ELSE LET lo == CHOOSE i \in keep : \A j \in keep : i <= j
                 hi == CHOOSE i \in keep : \A j \in keep : j <= i
             IN  SubSeq(s, lo, hi)

----------------------------------------------------------------------------
(* NewsItem and the source attribution                                     *)

\* NewsItem that keeps the text as given (no strip).
NewsItemUnstripped(t, sources, is_impression) ==
    [text |-> t, sources |-> sources, is_impression |-> is_impression]

NewsItem(t, sources, is_impression) ==
    [text |-> Strip(t), sources |-> sources, is_impression |-> is_impression]

\* The loop without the seen_uris test: a chunk is kept whenever its URI is not empty.
RECURSIVE DedupeLoopNoSeen(_, _, _, _)
DedupeLoopNoSeen(cs, i, seen_uris, sources) ==
    IF i > Len(cs)
    THEN sources
    ELSE IF cs[i].uri = ""
         THEN DedupeLoopNoSeen(cs, i + 1, seen_uris, sources)
         ELSE DedupeLoopNoSeen(cs, i + 1, seen_uris, Append(sources, cs[i]))

\* The loop `for chunk in ...: if not uri or uri in seen_uris: continue`.
RECURSIVE DedupeLoop(_, _, _, _)
DedupeLoop(cs, i, seen_uris, sources) ==
    IF i > Len(cs)
    THEN sources
    ELSE LET uri == cs[i].uri
         IN  IF uri = "" \/ uri \in seen_uris
             THEN DedupeLoop(cs, i + 1, seen_uris, sources)
             ELSE DedupeLoop(cs, i + 1, seen_uris \cup {uri}, Append(sources, cs[i]))

\* Deduplication that keeps the last chunk of each URI instead of the first.
_dedupe_sources_keep_last(cs) ==
    LET keep(i) == /\ cs[i].uri # ""
                   /\ \A j \in (i + 1)..Len(cs) : cs[j].uri # cs[i].uri
        RECURSIVE Go(_)
        Go(i) == IF i > Len(cs) THEN <<>>
                 ELSE (IF keep(i) THEN <<cs[i]>> ELSE <<>>) \o Go(i + 1)
    IN  Go(1)

_dedupe_sources(cs) == DedupeLoop(cs, 1, {}, <<>>)

\* support.get("segment", {}).get("text", "")
SegText(support) ==
    IF support.segment = <<>> THEN <<>> ELSE support.segment[1].text

\* The match without the minimum length test.
SupportMatchesAnyLength(support, part_text) ==
    LET seg_text == SegText(support)
    IN  seg_text # <<>> /\ Contains(part_text, seg_text)

\* seg_text and len(seg_text) > MIN_SEGMENT_TEXT_LENGTH and seg_text in part_text
SupportMatches(support, part_text) ==
    LET seg_text == SegText(support)
    IN  /\ seg_text # <<>>
        /\ Len(seg_text) > MIN_SEGMENT_TEXT_LENGTH
        /\ Contains(part_text, seg_text)

\* The set source_indices after the loop over the supports (0-based indices).
SourceIndices(part_text, cs, sups) ==
    {idx \in 0..(Len(cs) - 1) :
        \E s \in 1..Len(sups) :
            /\ SupportMatches(sups[s], part_text)
            /\ \E k \in 1..Len(sups[s].chunk_indices) : sups[s].chunk_indices[k] = idx}

\* [chunks[idx] for idx in sorted(source_indices, reverse=True)]
RECURSIVE SortedChunksDescending(_, _)
SortedChunksDescending(cs, indices) ==
    IF indices = {}
    THEN <<>>
    ELSE LET m == CHOOSE i \in indices : \A j \in indices : j <= i
         IN  <<cs[m + 1]>> \o SortedChunksDescending(cs, indices \ {m})

\* [chunks[idx] for idx in sorted(source_indices)]
RECURSIVE SortedChunks(_, _)
SortedChunks(cs, indices) ==
    IF indices = {}
    THEN <<>>
    ELSE LET m == CHOOSE i \in indices : \A j \in indices : i <= j
         IN  <<cs[m + 1]>> \o SortedChunks(cs, indices \ {m})

_find_sources_for_part(part_text, cs, sups) ==
    DedupeLoop(SortedChunks(cs, SourceIndices(part_text, cs, sups)), 1, {}, <<>>)

\* is_last_part = i == len(parts) - 1 (i is 1-based here)
IsLastPart(i, n) == i = n

\* The impression item keeps what the attribution found.
ItemSourcesKept(is_impression, found) == found

\* if is_impression: sources = []
ItemSources(is_impression, found) ==
    IF is_impression THEN <<>> ELSE found

\* The loop over enumerate(parts).
RECURSIVE PartsLoop(_, _, _, _, _)
PartsLoop(parts, i, cs, sups, acc) ==
    IF i > Len(parts)
    THEN acc
    ELSE LET part_text == Strip(parts[i])
         IN  IF part_text = <<>>
             THEN PartsLoop(parts, i + 1, cs, sups, acc)
             ELSE LET is_impression == IsLastPart(i, Len(parts))
                      sources == ItemSources(is_impression,
                                     _find_sources_for_part(part_text, cs, sups))
                  IN  PartsLoop(parts, i + 1, cs, sups,
                                Append(acc, NewsItem(part_text, sources, is_impression)))

\* if len(parts) <= 1: return [NewsItem(text, all_sources)]
SingleItem(t, cs) == <<NewsItem(t, _dedupe_sources(cs), FALSE)>>

_parse_news_items(t, cs, sups) ==
    LET parts == Split(t, SEPARATOR)
    IN  IF Len(parts) <= 1
        THEN SingleItem(t, cs)
        ELSE PartsLoop(parts, 1, cs, sups, <<>>)

----------------------------------------------------------------------------
(* Inputs of the parsing specification                                     *)

Long == <<"a", "b", "c", "d", "e", "f", "g", "h", "i", "j", "k">>
Ten == <<"a", "b", "c", "d", "e", "f", "g", "h", "i", "j">>
Word == <<"x">>
Space == <<" ">>

Pieces == {Long, Word, Space, SEPARATOR}

RECURSIVE Concat(_)
Concat(ps) == IF ps = <<>> THEN <<>> ELSE Head(ps) \o Concat(Tail(ps))

SeqsUpTo(S, n) == UNION {[1..k -> S] : k \in 0..n}

\* Every concatenation of at most MaxPieces pieces.
Texts == {Concat(ps) : ps \in SeqsUpTo(Pieces, MaxPieces)}

ChunkA == [title |-> "A", uri |-> "u1"]
ChunkB == [title |-> "B", uri |-> "u1"]
ChunkC == [title |-> "C", uri |-> "u2"]
ChunkD == [title |-> "D", uri |-> ""]

ChunkRecs == {ChunkA, ChunkB, ChunkC, ChunkD}

Segment(t) == <<[text |-> t]>>

SupportRecs ==
    [segment : {<<>>, Segment(<<>>), Segment(Word), Segment(Ten), Segment(Long)},
     chunk_indices : {<<0>>, <<1, 0, MaxChunks>>}]

\* Texts whose segments the attribution can tell apart.
AttrTexts ==
    { Long \o SEPARATOR \o Word \o SEPARATOR \o Long,
      Word \o SEPARATOR \o Long \o Space \o SEPARATOR \o Word,
      Long \o Space \o Word \o SEPARATOR,
      Long \o Word,
      Word }

\* Groundings the segmentation is run with.
Groundings ==
    { [chunks |-> <<>>, supports |-> <<>>],
      [chunks |-> <<ChunkA, ChunkD, ChunkB, ChunkC>>,
       supports |-> <<[segment |-> Segment(Long), chunk_indices |-> <<3, 0>>],
                      [segment |-> Segment(Word), chunk_indices |-> <<1, 2>>]>>] }

\* A response without candidates.
NoResponse == [candidates |-> [iterable |-> TRUE, elems |-> <<>>]]

\* main() has not been entered.
NoRun == [n_topics |-> 0]

\* fetch_recent_urls has not been called.
NoRecent == [outcome |-> "none", raised |-> FALSE, urls |-> <<>>]

\* No SlackPoster has been used.
NoSlack ==
    /\ messages = <<>>
    /\ recent = NoRecent
    /\ exclude_section = <<>>
    /\ header = <<>>
    /\ blocks = <<>>

InitParse ==
    /\ pc = "input"
    /\ items = <<>>
    /\ response = NoResponse
    /\ warned = FALSE
    /\ NoSlack
    /\ run = NoRun
    /\ \/ /\ text \in Texts
          /\ \E g \in Groundings : chunks = g.chunks /\ supports = g.supports
       \/ /\ text \in AttrTexts
          /\ chunks \in SeqsUpTo(ChunkRecs, MaxChunks)
          /\ supports \in SeqsUpTo(SupportRecs, MaxSupports)

\* items = self._parse_news_items(response.text, chunks, supports)
ParseNewsItems ==
    /\ pc = "input"
    /\ items' = _parse_news_items(text, chunks, supports)
    /\ pc' = "parsed"
    /\ UNCHANGED <<text, chunks, supports, response, warned, run>>
    /\ UNCHANGED slackVars

NextParse == ParseNewsItems

SpecParse == InitParse /\ [][NextParse]_vars

----------------------------------------------------------------------------
(* _extract_grounding_metadata                                             *)
(*                                                                         *)
(* A field the code iterates is a record [iterable, elems]: a list, or a   *)
(* truthy value that cannot be iterated, on which `for ... in` raises.     *)
(* None, an absent attribute and an empty list are the empty list: all are *)
(* falsy.  An optional object (grounding_metadata, web, segment) is a      *)
(* sequence of length 0 or 1.  Of a support the fields read downstream are *)
(* kept: chunk_indices and the segment's text.                             *)

List(xs) == [iterable |-> TRUE, elems |-> xs]
NotIterable == [iterable |-> FALSE, elems |-> <<>>]

\* `hasattr(x, f) and x.f`
Truthy(f) == ~f.iterable \/ f.elems # <<>>

\* The lists are emptied when the exception is caught.
OnExceptionReset(st) == [chunks |-> <<>>, supports |-> <<>>, warned |-> TRUE]

\* except Exception: logger.warning(...); then `return chunks, supports`
OnException(st) == [chunks |-> st.chunks, supports |-> st.supports, warned |-> TRUE]

\* for chunk in metadata.grounding_chunks: if chunk.web: chunks.append({...})
RECURSIVE ChunkLoop(_, _, _)
ChunkLoop(gcs, i, acc) ==
    IF i > Len(gcs)
    THEN acc
    ELSE ChunkLoop(gcs, i + 1,
                   IF gcs[i].web # <<>>
                   THEN Append(acc, [title |-> gcs[i].web[1].title,
                                     uri |-> gcs[i].web[1].uri])
                   ELSE acc)

\* support_data, with "segment" only `if segment`
SupportData(support) ==
    [chunk_indices |-> support.grounding_chunk_indices,
     segment |-> IF support.segment # <<>>
                 THEN <<[text |-> support.segment[1].text]>>
                 ELSE <<>>]

\* for support in metadata.grounding_supports: supports.append(support_data)
RECURSIVE SupportLoop(_, _, _)
SupportLoop(gss, i, acc) ==
    IF i > Len(gss)
    THEN acc
    ELSE SupportLoop(gss, i + 1, Append(acc, SupportData(gss[i])))

\* The body of `for candidate in response.candidates`, on the lists so far.
ExtractCandidate(candidate, st) ==
    IF candidate.grounding_metadata = <<>>
    THEN st
    ELSE LET metadata == candidate.grounding_metadata[1]
         IN  IF Truthy(metadata.grounding_chunks) /\ ~metadata.grounding_chunks.iterable
             THEN OnException(st)
             ELSE LET st1 == [st EXCEPT !.chunks =
                                 ChunkLoop(metadata.grounding_chunks.elems, 1, st.chunks)]
                  IN  IF Truthy(metadata.grounding_supports)
                         /\ ~metadata.grounding_supports.iterable
                      THEN OnException(st1)
                      ELSE [st1 EXCEPT !.supports =
                               SupportLoop(metadata.grounding_supports.elems, 1, st1.supports)]

RECURSIVE CandidateLoop(_, _, _)
CandidateLoop(cands, i, st) ==
    IF i > Len(cands) \/ st.warned
    THEN st
    ELSE CandidateLoop(cands, i + 1, ExtractCandidate(cands[i], st))

_extract_grounding_metadata(resp) ==
    LET st0 == [chunks |-> <<>>, supports |-> <<>>, warned |-> FALSE]
    IN  IF ~resp.candidates.iterable
        THEN OnException(st0)
        ELSE CandidateLoop(resp.candidates.elems, 1, st0)

----------------------------------------------------------------------------
(* Inputs of the extraction specification                                  *)

WebA == [web |-> <<[title |-> "A", uri |-> "u1"]>>]
NoWeb == [web |-> <<>>]

SupportLong == [segment |-> <<[text |-> Long]>>, grounding_chunk_indices |-> <<0>>]
SupportNoSegment == [segment |-> <<>>, grounding_chunk_indices |-> <<1, 0>>]

Metadatas ==
    [grounding_chunks : {NotIterable, List(<<>>), List(<<WebA>>), List(<<NoWeb, WebA>>)},
     grounding_supports : {NotIterable, List(<<>>), List(<<SupportLong, SupportNoSegment>>)}]

Candidates ==
    {[grounding_metadata |-> <<>>]} \cup {[grounding_metadata |-> <<m>>] : m \in Metadatas}

Responses ==
    {[candidates |-> NotIterable]}
        \cup {[candidates |-> List(cs)] : cs \in SeqsUpTo(Candidates, MaxCandidates)}

InitExtract ==
    /\ pc = "response"
    /\ response \in Responses
    /\ text = <<>>
    /\ chunks = <<>>
    /\ supports = <<>>
    /\ items = <<>>
    /\ warned = FALSE
    /\ NoSlack
    /\ run = NoRun

\* chunks, supports = self._extract_grounding_metadata(response)
ExtractGroundingMetadata ==
    /\ pc = "response"
    /\ LET r == _extract_grounding_metadata(response)
       IN  /\ chunks' = r.chunks
           /\ supports' = r.supports
           /\ warned' = r.warned
    /\ pc' = "extracted"
    /\ UNCHANGED <<text, items, response, run>>
    /\ UNCHANGED slackVars

NextExtract == ExtractGroundingMetadata

SpecExtract == InitExtract /\ [][NextExtract]_vars

----------------------------------------------------------------------------
(* main(): the loop over the configured topics                             *)
(*                                                                         *)
(* main's calls are bound to the implementations under src/, whose names   *)
(* and keyword arguments differ from the ones main.py uses: the history    *)
(* call of line 40 (fetch_recent_titles) is SlackPoster.fetch_recent_urls, *)
(* the call of line 43 is NewsCurator.fetch_news with the list as its      *)
(* exclusion list, the call of line 65 is SlackPoster.post_news, which     *)
(* builds the blocks from the items alone.  config.generate_manga (line    *)
(* 30) is an input of the run.                                             *)
(*                                                                         *)
(* An external call ends "ok", "api_error" (slack_sdk's SlackApiError) or  *)
(* "error" (any other exception: a network error, a timeout); the model    *)
(* call ends "ok" or "error".  run.calls records every call in order.      *)

SlackOutcomes == {"ok", "api_error", "error"}
ModelOutcomes == {"ok", "error"}

\* fetch_recent_urls: `except SlackApiError` returns []; nothing else is caught.
fetch_recent_urls(outcome, urls) ==
    [raised |-> outcome = "error", value |-> IF outcome = "ok" THEN urls ELSE <<>>]

\* post_news without its try/except.
post_news_uncaught(outcome) ==
    [raised |-> outcome # "ok", value |-> outcome = "ok"]

\* post_news: True after chat_postMessage, False on SlackApiError; nothing
\* else is caught.
post_news(outcome) ==
    [raised |-> outcome = "error", value |-> outcome = "ok"]

\* The loop stays on the same topic.
LoopRepeat(topic) == topic

\* `for topic in config.topics`: on to the next topic.
LoopAdvance(topic) == topic + 1

\* except Exception: logger.error(...); return 1
ExceptionStatus == 1

\* return 0 if all_success else 1
ReturnStatus(all_success) == IF all_success THEN 0 ELSE 1

Call(topic, call, outcome) == [topic |-> topic, call |-> call, outcome |-> outcome]

\* An exception leaves the loop and reaches `except Exception` of main.
Abort(entry) ==
    /\ run' = [run EXCEPT !.calls = Append(@, entry),
                          !.raised = TRUE,
                          !.ret = ExceptionStatus]
    /\ pc' = "done"

\* The URL lists fetch_recent_urls finds in a channel's history.
UrlLists == {<<>>, <<"u1">>, <<"u2", "u1">>}

\* The responses of the model call: a segmented text with grounding, and a
\* text without separator whose candidates cannot be traversed.
MainResponses ==
    { [text |-> Long \o SEPARATOR \o Word \o SEPARATOR \o Long,
       candidates |-> List(<<[grounding_metadata |->
                                <<[grounding_chunks |-> List(<<WebA>>),
                                   grounding_supports |-> List(<<SupportLong>>)]>>]>>)],
      [text |-> Word, candidates |-> NotIterable] }

InitMain ==
    /\ pc = "loop"
    /\ text = <<>>
    /\ chunks = <<>>
    /\ supports = <<>>
    /\ items = <<>>
    /\ response = NoResponse
    /\ warned = FALSE
    /\ NoSlack
    /\ \E n \in 0..MaxTopics : \E manga \in BOOLEAN :
          run = [n_topics |-> n,
                 generate_manga |-> manga,
                 topic |-> 1,
                 all_success |-> TRUE,
                 exclude_urls |-> <<>>,
                 manga_image |-> FALSE,
                 raised |-> FALSE,
                 ret |-> -1,
                 calls |-> <<>>]

\* for topic in config.topics: poster = SlackPoster(config, topic)
EnterTopic ==
    /\ pc = "loop"
    /\ run.topic <= run.n_topics
    /\ pc' = "history"
    /\ UNCHANGED <<text, chunks, supports, items, response, warned, run>>
    /\ UNCHANGED slackVars

\* return 0 if all_success else 1
Return ==
    /\ pc = "loop"
    /\ run.topic > run.n_topics
    /\ run' = [run EXCEPT !.ret = ReturnStatus(run.all_success)]
    /\ pc' = "done"
    /\ UNCHANGED <<text, chunks, supports, items, response, warned>>
    /\ UNCHANGED slackVars

\* exclude_titles = poster.fetch_recent_titles(): conversations_history
FetchRecent ==
    /\ pc = "history"
    /\ \E outcome \in SlackOutcomes : \E urls \in UrlLists :
          LET r == fetch_recent_urls(outcome, urls)
              entry == Call(run.topic, "history", outcome)
          IN  IF r.raised
              THEN Abort(entry)
              ELSE /\ run' = [run EXCEPT !.calls = Append(@, entry),
                                         !.exclude_urls = r.value]
                   /\ pc' = "model"
    /\ UNCHANGED <<text, chunks, supports, items, response, warned>>
    /\ UNCHANGED slackVars

\* items = curator.fetch_news(...): self.client.models.generate_content(...)
GenerateContent ==
    /\ pc = "model"
    /\ \E outcome \in ModelOutcomes :
          LET entry == Call(run.topic, "model", outcome)
          IN  IF outcome = "error"
              THEN Abort(entry) /\ UNCHANGED response
              ELSE /\ response' \in MainResponses
                   /\ run' = [run EXCEPT !.calls = Append(@, entry)]
                   /\ pc' = "parse"
    /\ UNCHANGED <<text, chunks, supports, items, warned>>
    /\ UNCHANGED slackVars

\* fetch_news: _extract_grounding_metadata(response), then
\* _parse_news_items(response.text, chunks, supports)
ParseResponse ==
    /\ pc = "parse"
    /\ LET r == _extract_grounding_metadata(response)
       IN  /\ chunks' = r.chunks
           /\ supports' = r.supports
           /\ warned' = r.warned
           /\ text' = response.text
           /\ items' = _parse_news_items(response.text, r.chunks, r.supports)
    /\ run' = [run EXCEPT !.calls = Append(@, Call(run.topic, "parse", "ok"))]
    /\ pc' = "manga"
    /\ UNCHANGED response
    /\ UNCHANGED slackVars

\* if image_generator and items: the summary item, if any, is drawn;
\* generate_manga returns the image or None and never raises.
GenerateManga ==
    /\ pc = "manga"
    /\ IF /\ run.generate_manga
          /\ \E i \in 1..Len(items) : items[i].is_impression
       THEN \E image \in BOOLEAN :
               run' = [run EXCEPT !.manga_image = image,
                                  !.calls = Append(@, Call(run.topic, "manga",
                                                IF image THEN "ok" ELSE "none"))]
       ELSE run' = [run EXCEPT !.manga_image = FALSE]
    /\ pc' = "post"
    /\ UNCHANGED <<text, chunks, supports, items, response, warned>>
    /\ UNCHANGED slackVars

\* success = poster.post_news(items, ...); if not success: all_success = False
PostNews ==
    /\ pc = "post"
    /\ \E outcome \in SlackOutcomes :
          LET r == post_news(outcome)
              entry == Call(run.topic, "post", outcome)
          IN  IF r.raised
              THEN Abort(entry)
              ELSE /\ run' = [run EXCEPT !.calls = Append(@, entry),
                                         !.all_success = run.all_success /\ r.value,
                                         !.topic = LoopAdvance(run.topic)]
                   /\ pc' = "loop"
    /\ UNCHANGED <<text, chunks, supports, items, response, warned>>
    /\ UNCHANGED slackVars

NextMain ==
    \/ EnterTopic
    \/ Return
    \/ FetchRecent
    \/ GenerateContent
    \/ ParseResponse
    \/ GenerateManga
    \/ PostNews

SpecMain == InitMain /\ [][NextMain]_vars

----------------------------------------------------------------------------
(* SlackPoster.fetch_recent_urls and the exclusion section of fetch_news   *)
(*                                                                         *)
(* A message is [blocks], a block is [type, text, elements] (text is the   *)
(* text object of a section block, elements the element list of a context  *)
(* block; an absent key is the empty sequence, as with dict.get), an       *)
(* element is [type, text].  The link emoji U+1F517 that opens a source    *)
(* line is the single character LinkGlyph.                                 *)

LinkGlyph == "U+1F517"

Http == <<"h", "t", "t", "p">>
SchemeEnd == <<":", "/", "/">>

\* text.startswith(prefix), prefix one character
StartsWith(t, prefix) == Len(t) >= 1 /\ t[1] = prefix

\* The end of the longest run of characters outside `stops` that starts at
\* position i (i - 1 when the run is empty): a greedy [^...]* from i.
RunEnd(t, i, stops) ==
    LET ends == {e \in (i - 1)..Len(t) : \A k \in i..e : t[k] \notin stops}
    IN  CHOOSE e \in ends : \A f \in ends : f <= e

\* url_pattern = <(https?://[^|>]+)(?:\|[^>]*)?> matched at position i:
\* whether it matches, its group 1, and the position of the closing ">".
MatchAt(t, i) ==
    LET s == i + 1 + Len(Http)
        c == IF OccursAt(t, <<"s">>, s) THEN s + 1 ELSE s
        u == c + Len(SchemeEnd)
        e == RunEnd(t, u, {"|", ">"})
        l == RunEnd(t, e + 2, {">"})
        no_match == [matched |-> FALSE, group |-> <<>>, end |-> i]
    IN  IF ~(/\ OccursAt(t, <<"<">>, i)
             /\ OccursAt(t, Http, i + 1)
             /\ OccursAt(t, SchemeEnd, c)
             /\ e >= u)
        THEN no_match
        ELSE IF OccursAt(t, <<">">>, e + 1)
        THEN [matched |-> TRUE, group |-> SubSeq(t, i + 1, e), end |-> e + 1]
        ELSE IF OccursAt(t, <<"|">>, e + 1) /\ OccursAt(t, <<">">>, l + 1)
        THEN [matched |-> TRUE, group |-> SubSeq(t, i + 1, e), end |-> l + 1]
        ELSE no_match

\* url_pattern.findall(text) from position i on: group 1 of the leftmost,
\* non-overlapping matches.
RECURSIVE FindAll(_, _)
FindAll(t, i) ==
    IF i > Len(t)
    THEN <<>>
    ELSE LET m == MatchAt(t, i)
         IN  IF m.matched
             THEN <<m.group>> \o FindAll(t, m.end + 1)
             ELSE FindAll(t, i + 1)

\* The element's matches whatever its text starts with.
ElementUrlsAnyText(element) ==
    IF element.type = "mrkdwn" THEN FindAll(element.text, 1) ELSE <<>>

\* if element.get("type") == "mrkdwn": if text.startswith(glyph): findall
ElementUrls(element) ==
    IF element.type = "mrkdwn" /\ StartsWith(element.text, LinkGlyph)
    THEN FindAll(element.text, 1)
    ELSE <<>>

\* if block.get("type") == "context": for element in elements
BlockUrls(block) ==
    IF block.type = "context"
    THEN Concat([k \in 1..Len(block.elements) |-> ElementUrls(block.elements[k])])
    ELSE <<>>

\* for block in message.get("blocks", [])
MessageUrls(message) ==
    Concat([k \in 1..Len(message.blocks) |-> BlockUrls(message.blocks[k])])

\* The list urls after the loop over response.get("messages", []).
ExtractUrls(msgs) ==
    Concat([k \in 1..Len(msgs) |-> MessageUrls(msgs[k])])

Newline == <<"\n">>

\* The heading line of EXCLUDE_SECTION_TEMPLATE; its wording is one character.
ExcludeHeading == <<"#", " ", "heading">>

\* "\n".join(lines)
RECURSIVE Join(_)
Join(lines) ==
    IF lines = <<>> THEN <<>>
    ELSE IF Len(lines) = 1 THEN lines[1]
    ELSE lines[1] \o Newline \o Join(Tail(lines))

\* f"- {url}"
ExcludeLine(url) == <<"-", " ">> \o url

\* The exclusion section with one line per distinct URL.
ExcludeSectionDistinct(exclude_urls) ==
    LET first == {k \in 1..Len(exclude_urls) :
                     \A j \in 1..(k - 1) : exclude_urls[j] # exclude_urls[k]}
        IsFirst(k) == k \in first
        kept == SelectSeq([k \in 1..Len(exclude_urls) |-> k], IsFirst)
    IN  IF exclude_urls = <<>>
        THEN <<>>
        ELSE Newline \o ExcludeHeading \o Newline
                 \o Join([n \in 1..Len(kept) |-> ExcludeLine(exclude_urls[kept[n]])])
                 \o Newline

\* exclude_section = "" unless exclude_urls, else the template filled with
\* the joined lines.
ExcludeSection(exclude_urls) ==
    IF exclude_urls = <<>>
    THEN <<>>
    ELSE Newline \o ExcludeHeading \o Newline
             \o Join([k \in 1..Len(exclude_urls) |-> ExcludeLine(exclude_urls[k])])
             \o Newline

----------------------------------------------------------------------------
(* Inputs of the history specification                                     *)

MaxLinkPieces == 6
MaxMessages == 2

Lt == <<"<">>
Gt == <<">">>
Bar == <<"|">>
Name == <<"a">>

LinkPieces == {Lt, Gt, Bar, Http \o SchemeEnd, Name}

\* Source lines made of at most MaxLinkPieces pieces after the glyph.
LinkTexts == {<<LinkGlyph>> \o Concat(ps) : ps \in SeqsUpTo(LinkPieces, MaxLinkPieces)}

UrlA == Http \o SchemeEnd \o Name
UrlB == Http \o <<"s">> \o SchemeEnd \o <<"b">>

\* <uri|title>, as _format_source_links writes a source
LinkA == Lt \o UrlA \o Bar \o <<"A">> \o Gt
LinkB == Lt \o UrlB \o Bar \o <<"B">> \o Gt

\* <uri>
BareA == Lt \o UrlA \o Gt

Mrkdwn(t) == [type |-> "mrkdwn", text |-> t]
PlainText(t) == [type |-> "plain_text", text |-> t]

ContextBlock(elements) == [type |-> "context", text |-> <<>>, elements |-> elements]
SectionBlock(t) == [type |-> "section", text |-> <<Mrkdwn(t)>>, elements |-> <<>>]

SourceLine == <<LinkGlyph, " ">> \o LinkB \o <<" ", "U+00B7", " ">> \o LinkA

\* A posted news message: an item that quotes a link in its text, its source
\* line, a second source line that repeats a URL, a footer.
PostedMessage ==
    [blocks |-> << SectionBlock(<<"x", " ">> \o LinkB),
                   ContextBlock(<<Mrkdwn(SourceLine)>>),
                   SectionBlock(<<LinkGlyph>> \o BareA),
                   ContextBlock(<<Mrkdwn(<<LinkGlyph, " ">> \o BareA \o LinkA)>>),
                   ContextBlock(<<Mrkdwn(<<"U+26A1", " ">> \o LinkB)>>) >>]

\* A message by someone else: context lines that do not start with the glyph,
\* a context element that is not mrkdwn.
OtherMessage ==
    [blocks |-> << ContextBlock(<<Mrkdwn(LinkA), Mrkdwn(<<" ", LinkGlyph>> \o LinkB)>>),
                   ContextBlock(<<PlainText(<<LinkGlyph>> \o LinkB),
                                  Mrkdwn(<<LinkGlyph>> \o LinkA \o <<"x">> \o BareA)>>) >>]

\* A message without blocks.
PlainMessage == [blocks |-> <<>>]

MessageRecs == {PostedMessage, OtherMessage, PlainMessage}

InitHistory ==
    /\ pc = "channel"
    /\ text = <<>>
    /\ chunks = <<>>
    /\ supports = <<>>
    /\ items = <<>>
    /\ response = NoResponse
    /\ warned = FALSE
    /\ run = NoRun
    /\ recent = NoRecent
    /\ exclude_section = <<>>
    /\ header = <<>>
    /\ blocks = <<>>
    /\ \/ messages \in SeqsUpTo(MessageRecs, MaxMessages)
       \/ \E t \in LinkTexts : messages = <<[blocks |-> <<ContextBlock(<<Mrkdwn(t)>>)>>]>>

\* exclude_urls = poster.fetch_recent_urls()
FetchRecentUrls ==
    /\ pc = "channel"
    /\ \E outcome \in SlackOutcomes :
          LET r == fetch_recent_urls(outcome, ExtractUrls(messages))
          IN  /\ recent' = [outcome |-> outcome, raised |-> r.raised, urls |-> r.value]
              /\ pc' = IF r.raised THEN "raised" ELSE "fetched"
    /\ UNCHANGED <<text, chunks, supports, items, response, warned, run>>
    /\ UNCHANGED <<messages, exclude_section, header, blocks>>

\* fetch_news(topic, exclude_urls): the exclusion section of the prompt
BuildExcludeSection ==
    /\ pc = "fetched"
    /\ exclude_section' = ExcludeSection(recent.urls)
    /\ pc' = "prompted"
    /\ UNCHANGED <<text, chunks, supports, items, response, warned, run>>
    /\ UNCHANGED <<messages, recent, header, blocks>>

NextHistory ==
    \/ FetchRecentUrls
    \/ BuildExcludeSection

SpecHistory == InitHistory /\ [][NextHistory]_vars

----------------------------------------------------------------------------
(* SlackPoster.post_news and _build_blocks                                 *)
(*                                                                         *)
(* The date, the model name and the time of day are single characters of   *)
(* the texts they are formatted into, as the emoji are; a source's URI and *)
(* title are single characters of its link.                                *)

MAX_BLOCK_TEXT_LENGTH == 3000
MAX_HEADER_LENGTH == 150

Ellipsis == <<".", ".", ".">>

\* The text cut at the cap, the ellipsis added after it.
TruncateAtCap(t, cap) ==
    IF Len(t) > cap THEN SubSeq(t, 1, cap) \o Ellipsis ELSE t

\* if len(text) > cap: text = text[: cap - 3] + "..."
Truncate(t, cap) ==
    IF Len(t) > cap THEN SubSeq(t, 1, cap - 3) \o Ellipsis ELSE t

\* " · ".join(links)
RECURSIVE JoinLinks(_)
JoinLinks(links) ==
    IF links = <<>> THEN <<>>
    ELSE IF Len(links) = 1 THEN links[1]
    ELSE links[1] \o <<" ", "U+00B7", " ">> \o JoinLinks(Tail(links))

HasUri(source) == source.uri # ""

\* f"<{uri}|{title}>"
SourceLink(source) == <<"<", source.uri, "|", source.title, ">">>

_format_source_links(sources) ==
    LET linked == SelectSeq(sources, HasUri)
    IN  JoinLinks([k \in 1..Len(linked) |-> SourceLink(linked[k])])

HeaderBlock(t) == [type |-> "header", text |-> <<PlainText(t)>>, elements |-> <<>>]
Divider == [type |-> "divider", text |-> <<>>, elements |-> <<>>]

\* f"📅 {date_str}"
DateLine == <<"U+1F4C5", " ", "date">>

\* f"⚡ {self.model_name} · {time_str}"
FooterLine == <<"U+26A1", " ", "model", " ", "U+00B7", " ", "time">>

\* The blocks one item adds: a divider, its section, its source line if it
\* is not the impression item and has a source with a URI.
ItemBlocks(item) ==
    LET source_links == _format_source_links(item.sources)
    IN  <<Divider, SectionBlock(Truncate(item.text, MAX_BLOCK_TEXT_LENGTH))>>
            \o (IF ~item.is_impression /\ item.sources # <<>> /\ source_links # <<>>
                THEN <<ContextBlock(<<Mrkdwn(<<LinkGlyph, " ">> \o source_links)>>)>>
                ELSE <<>>)

_build_blocks(hdr, its) ==
    <<HeaderBlock(Truncate(hdr, MAX_HEADER_LENGTH)), ContextBlock(<<Mrkdwn(DateLine)>>)>>
        \o Concat([k \in 1..Len(its) |-> ItemBlocks(its[k])])
        \o <<Divider, ContextBlock(<<Mrkdwn(FooterLine)>>)>>

----------------------------------------------------------------------------
(* Inputs of the block building specification                              *)

MaxOver == 3
MaxItems == 2

\* A text of n characters without whitespace, its characters varying with
\* their position.
Fill(n) == [k \in 1..n |-> Ten[((k - 1) % 10) + 1]]

\* The lengths about a cap, and the shortest ones.
LengthsAbout(cap) == {0, 1} \cup ((cap - MaxOver)..(cap + MaxOver))

\* Items as _parse_news_items returns them: news items, then at most one
\* impression item, which has no sources.
NewsRecs ==
    { [text |-> Fill(1), sources |-> <<ChunkA, ChunkC>>, is_impression |-> FALSE],
      [text |-> Fill(MAX_BLOCK_TEXT_LENGTH + 1), sources |-> <<ChunkA>>, is_impression |-> FALSE],
      [text |-> Fill(MAX_BLOCK_TEXT_LENGTH), sources |-> <<>>, is_impression |-> FALSE] }

ImpressionRec ==
    [text |-> Fill(MAX_BLOCK_TEXT_LENGTH + MaxOver), sources |-> <<>>, is_impression |-> TRUE]

InitBlocks ==
    /\ pc = "items"
    /\ text = <<>>
    /\ chunks = <<>>
    /\ supports = <<>>
    /\ response = NoResponse
    /\ warned = FALSE
    /\ run = NoRun
    /\ messages = <<>>
    /\ recent = NoRecent
    /\ exclude_section = <<>>
    /\ blocks = <<>>
    /\ \/ /\ \E n \in LengthsAbout(MAX_HEADER_LENGTH) : header = Fill(n)
          /\ \E n \in LengthsAbout(MAX_BLOCK_TEXT_LENGTH) : \E impression \in BOOLEAN :
                items = <<[text |-> Fill(n), sources |-> <<>>, is_impression |-> impression]>>
       \/ /\ header \in {Fill(1), Fill(MAX_HEADER_LENGTH + 1)}
          /\ \E news \in SeqsUpTo(NewsRecs, MaxItems) :
                items \in {news, news \o <<ImpressionRec>>}

\* post_news: blocks = self._build_blocks(items)
BuildBlocks ==
    /\ pc = "items"
    /\ blocks' = _build_blocks(header, items)
    /\ pc' = "built"
    /\ UNCHANGED <<text, chunks, supports, items, response, warned, run>>
    /\ UNCHANGED <<messages, recent, exclude_section, header>>

\* post_news: self.client.chat_postMessage(channel=..., blocks=blocks, ...)
ChatPostMessage ==
    /\ pc = "built"
    /\ \E outcome \in SlackOutcomes :
          pc' = IF post_news(outcome).raised THEN "raised"
                ELSE IF post_news(outcome).value THEN "posted" ELSE "not_posted"
    /\ UNCHANGED <<text, chunks, supports, items, response, warned, run>>
    /\ UNCHANGED slackVars

NextBlocks ==
    \/ BuildBlocks
    \/ ChatPostMessage

SpecBlocks == InitBlocks /\ [][NextBlocks]_vars

----------------------------------------------------------------------------
(* Properties of _parse_news_items                                         *)

ItemTexts(its) == [k \in 1..Len(its) |-> its[k].text]

NonEmptyText(t) == t # <<>>

\* Split on the separator, trim each segment, discard the empty ones.
TrimmedSegments(t) ==
    LET parts == Split(t, SEPARATOR)
    IN  SelectSeq([k \in 1..Len(parts) |-> Strip(parts[k])], NonEmptyText)

\* The n-th smallest member of a set of integers.
NthOf(K, n) == CHOOSE i \in K : Cardinality({j \in K : j < i}) = n - 1

\* The chunks with a non-empty URI, first occurrence of each URI, in chunk order.
FirstByUri(cs) ==
    LET K == {i \in 1..Len(cs) :
                 /\ cs[i].uri # ""
                 /\ \A j \in 1..(i - 1) : cs[j].uri # cs[i].uri}
    IN  [n \in 1..Cardinality(K) |-> cs[NthOf(K, n)]]

Range(f) == {f[k] : k \in DOMAIN f}

\* C1: at most one item has is_impression = TRUE; such an item is the last one
\* and its sources are empty, whatever the supports match.
C1_ImpressionLastUnsourced ==
    pc = "parsed" =>
        \A i \in 1..Len(items) :
            items[i].is_impression =>
                /\ i = Len(items)
                /\ items[i].sources = <<>>
                /\ \A j \in 1..Len(items) : items[j].is_impression => j = i

\* A parsed response with several items whose impression item matches a support
\* that resolves to a chunk.
C1_Witness ==
    /\ pc = "parsed"
    /\ Len(items) >= 3
    /\ items[Len(items)].is_impression
    /\ _find_sources_for_part(items[Len(items)].text, chunks, supports) # <<>>

\* C2 (as stated): the item texts are, in order, the trimmed non-empty segments
\* of the text, also when the text has no separator or is blank.
C2_Original ==
    pc = "parsed" =>
        /\ ItemTexts(items) = TrimmedSegments(text)
        /\ \A i \in 1..Len(items) : items[i].text # <<>>

\* C2 (amended): the item texts are the trimmed non-empty segments whenever the
\* text contains a separator or is not blank; a blank text without separator
\* gives exactly one item, whose text is empty.
C2_ItemTextsAreSegments ==
    pc = "parsed" =>
        /\ (Contains(text, SEPARATOR) \/ Strip(text) # <<>>) =>
              /\ ItemTexts(items) = TrimmedSegments(text)
              /\ \A i \in 1..Len(items) : items[i].text # <<>>
        /\ (~Contains(text, SEPARATOR) /\ Strip(text) = <<>>) =>
              /\ Len(items) = 1
              /\ items[1].text = <<>>

\* A parsed text with separators, surrounding whitespace and a segment that is
\* empty after trimming.
C2_Witness ==
    /\ pc = "parsed"
    /\ Contains(text, SEPARATOR)
    /\ Len(items) >= 2
    /\ Len(items) < Len(Split(text, SEPARATOR))
    /\ \E i \in 1..Len(items) : Len(items[i].text) > 1
    /\ text[1] \in Whitespace

\* C3: without a separator exactly one item is returned, not an impression,
\* whose sources are the chunks with a non-empty URI, first occurrence per URI
\* in chunk order, whatever the supports are.
C3_NoSeparatorSingleItem ==
    (pc = "parsed" /\ ~Contains(text, SEPARATOR)) =>
        /\ Len(items) = 1
        /\ items[1].is_impression = FALSE
        /\ items[1].sources = FirstByUri(chunks)

\* A text without separator, parsed with chunks that repeat a URI and supports
\* that match the text.
C3_Witness ==
    /\ pc = "parsed"
    /\ ~Contains(text, SEPARATOR)
    /\ Len(items) = 1
    /\ Len(items[1].sources) >= 2
    /\ Len(items[1].sources) < Len(chunks)
    /\ \E i, j \in 1..Len(chunks) : i < j /\ chunks[i].uri = chunks[j].uri /\ chunks[i].uri # ""
    /\ \E s \in 1..Len(supports) : SupportMatches(supports[s], items[1].text)

\* A support that has a segment whose text has at least 10 characters.
SufficientSupport(support) ==
    support.segment # <<>> /\ Len(support.segment[1].text) >= 10

\* C4: a support without segment, or whose segment text is shorter than 10
\* characters, contributes no chunk to any item: the items are those computed
\* from the supports of sufficient length alone, and every source of a
\* per-segment item comes from such a support contained in the item's text.
C4_ShortSupportsContributeNothing ==
    pc = "parsed" =>
        /\ items = _parse_news_items(text, chunks, SelectSeq(supports, SufficientSupport))
        /\ Contains(text, SEPARATOR) =>
              \A i \in 1..Len(items) : \A src \in Range(items[i].sources) :
                  \E s \in 1..Len(supports) :
                      /\ SufficientSupport(supports[s])
                      /\ Contains(items[i].text, supports[s].segment[1].text)
                      /\ \E k \in 1..Len(supports[s].chunk_indices) :
                            /\ supports[s].chunk_indices[k] < Len(chunks)
                            /\ chunks[supports[s].chunk_indices[k] + 1] = src

\* A short support is a substring of a cited (non-impression) item and points
\* at a usable chunk, and the item has no source.
C4_Witness ==
    /\ pc = "parsed"
    /\ \E i \in 1..Len(items) : \E s \in 1..Len(supports) :
          /\ ~items[i].is_impression
          /\ Contains(text, SEPARATOR)
          /\ supports[s].segment # <<>>
          /\ supports[s].segment[1].text # <<>>
          /\ Len(supports[s].segment[1].text) < 10
          /\ Contains(items[i].text, supports[s].segment[1].text)
          /\ \E k \in 1..Len(supports[s].chunk_indices) :
                /\ supports[s].chunk_indices[k] < Len(chunks)
                /\ chunks[supports[s].chunk_indices[k] + 1].uri # ""
          /\ items[i].sources = <<>>

\* C5: every source of every item is a member of the chunk list, has a
\* non-empty URI, and no two sources of one item share a URI.
C5_SourcesAreDistinctChunks ==
    pc = "parsed" =>
        \A i \in 1..Len(items) :
            LET srcs == items[i].sources
            IN  /\ \A k \in 1..Len(srcs) : srcs[k] \in Range(chunks) /\ srcs[k].uri # ""
                /\ \A k, l \in 1..Len(srcs) : k # l => srcs[k].uri # srcs[l].uri

\* A per-segment item whose matching supports point at more chunks than it
\* keeps, the chunk list repeating a URI.
C5_Witness ==
    /\ pc = "parsed"
    /\ \E i, j \in 1..Len(chunks) : i # j /\ chunks[i].uri = chunks[j].uri /\ chunks[i].uri # ""
    /\ \E i \in 1..Len(items) :
          /\ items[i].sources # <<>>
          /\ Contains(text, SEPARATOR)
          /\ Cardinality(SourceIndices(items[i].text, chunks, supports))
                > Len(items[i].sources)

\* C13 (as stated): when the text contains a separator and yields an item, the
\* last item is the impression item and has no sources, also when the text
\* ends with a separator followed only by whitespace.
C13_FinalSegmentIsImpression ==
    (pc = "parsed" /\ Contains(text, SEPARATOR) /\ items # <<>>) =>
        /\ items[Len(items)].is_impression
        /\ items[Len(items)].sources = <<>>

\* C14 (as stated): for a non-impression item, every support whose segment text
\* is non-empty, has at least 10 characters and is contained in the item's
\* text has each of its in-range chunks with a non-empty URI represented, by
\* URI, in the item's sources.
C14_TenCharacterSupportContributes ==
    pc = "parsed" =>
        \A i \in 1..Len(items) : \A s \in 1..Len(supports) :
            (/\ ~items[i].is_impression
             /\ SufficientSupport(supports[s])
             /\ Contains(items[i].text, supports[s].segment[1].text)) =>
                \A k \in 1..Len(supports[s].chunk_indices) :
                    LET idx == supports[s].chunk_indices[k]
                    IN  (idx < Len(chunks) /\ chunks[idx + 1].uri # "") =>
                            \E src \in Range(items[i].sources) :
                                src.uri = chunks[idx + 1].uri

\* The in-range chunk indices of the supports that match part_text, as they are
\* met scanning the supports in list order and each chunk_indices in order.
RECURSIVE EncounteredIndices(_, _, _, _)
EncounteredIndices(part_text, cs, sups, s) ==
    IF s > Len(sups)
    THEN <<>>
    ELSE LET InRange(idx) == idx < Len(cs)
             here == IF SupportMatches(sups[s], part_text)
                     THEN SelectSeq(sups[s].chunk_indices, InRange)
                     ELSE <<>>
         IN  here \o EncounteredIndices(part_text, cs, sups, s + 1)

\* The sources in first-seen order: the chunks in the order their indices are
\* first met, the first-met chunk of each URI kept.
FirstSeenSources(part_text, cs, sups) ==
    LET met == EncounteredIndices(part_text, cs, sups, 1)
    IN  FirstByUri([n \in 1..Len(met) |-> cs[met[n] + 1]])

\* C15 (as stated): the sources of a per-segment item are in first-seen order.
C15_Original ==
    (pc = "parsed" /\ Contains(text, SEPARATOR)) =>
        \A i \in 1..Len(items) :
            ~items[i].is_impression =>
                items[i].sources = FirstSeenSources(items[i].text, chunks, supports)

\* C15 (amended): the sources of a per-segment item are in ascending chunk
\* index order: they are the chunks, taken by increasing index, whose index is
\* listed by a matching support, whose URI is not empty and is not the URI of a
\* listed chunk of lower index.
C15_SourcesInChunkIndexOrder ==
    (pc = "parsed" /\ Contains(text, SEPARATOR)) =>
        \A i \in 1..Len(items) :
            ~items[i].is_impression =>
                LET met == Range(EncounteredIndices(items[i].text, chunks, supports, 1))
                    lowest == {m \in met :
                                 /\ chunks[m + 1].uri # ""
                                 /\ \A j \in met : j < m => chunks[j + 1].uri # chunks[m + 1].uri}
                IN  items[i].sources =
                        [n \in 1..Cardinality(lowest) |-> chunks[NthOf(lowest, n) + 1]]

\* A per-segment item matched by a support that lists a higher chunk index
\* before a lower one, the two chunks having different URIs and both being
\* sources of the item.
C15_Witness ==
    /\ pc = "parsed"
    /\ Contains(text, SEPARATOR)
    /\ \E i \in 1..Len(items) : \E s \in 1..Len(supports) :
          /\ ~items[i].is_impression
          /\ SupportMatches(supports[s], items[i].text)
          /\ Len(supports[s].chunk_indices) >= 2
          /\ supports[s].chunk_indices[1] > supports[s].chunk_indices[2]
          /\ supports[s].chunk_indices[1] < Len(chunks)
          /\ Len(items[i].sources) = 2
          /\ items[i].sources # FirstSeenSources(items[i].text, chunks, supports)


----------------------------------------------------------------------------
(* Properties of _extract_grounding_metadata                               *)

\* The candidate's metadata cannot be traversed: one of its two fields is
\* truthy and not iterable.
BadCandidate(c) ==
    /\ c.grounding_metadata # <<>>
    /\ \/ ~c.grounding_metadata[1].grounding_chunks.iterable
       \/ ~c.grounding_metadata[1].grounding_supports.iterable

\* The chunks a candidate adds before its traversal ends or fails.
ChunksOf(c) ==
    IF c.grounding_metadata = <<>> \/ ~c.grounding_metadata[1].grounding_chunks.iterable
    THEN <<>>
    ELSE LET gcs == c.grounding_metadata[1].grounding_chunks.elems
             withWeb(g) == g.web # <<>>
             kept == SelectSeq(gcs, withWeb)
         IN  [k \in 1..Len(kept) |-> kept[k].web[1]]

\* The supports a candidate adds: none unless both of its fields are traversed.
SupportsOf(c) ==
    IF c.grounding_metadata = <<>> \/ BadCandidate(c)
    THEN <<>>
    ELSE LET gss == c.grounding_metadata[1].grounding_supports.elems
         IN  [k \in 1..Len(gss) |->
                [chunk_indices |-> gss[k].grounding_chunk_indices,
                 segment |-> IF gss[k].segment = <<>> THEN <<>>
                             ELSE <<[text |-> gss[k].segment[1].text]>>]]

\* The index of the first candidate that cannot be traversed, Len + 1 if none.
FirstBad(cands) ==
    IF \E i \in 1..Len(cands) : BadCandidate(cands[i])
    THEN CHOOSE i \in 1..Len(cands) :
            BadCandidate(cands[i]) /\ \A j \in 1..(i - 1) : ~BadCandidate(cands[j])
    ELSE Len(cands) + 1

\* C6 (as stated): when the extraction fails at any point, the result is
\* (empty chunks, empty supports), never a partially filled one.
C6_Original ==
    (pc = "extracted" /\ warned) => (chunks = <<>> /\ supports = <<>>)

\* C6 (amended): the extraction never raises; when it fails at some point it
\* returns the chunks and supports collected up to that point, which are empty
\* only when nothing was collected before the failure.
C6_FailureKeepsCollected ==
    pc = "extracted" =>
        IF ~response.candidates.iterable
        THEN warned /\ chunks = <<>> /\ supports = <<>>
        ELSE LET cands == response.candidates.elems
                 f == FirstBad(cands)
                 upto == IF f <= Len(cands) THEN f ELSE Len(cands)
             IN  /\ warned = (f <= Len(cands))
                 /\ chunks = Concat([i \in 1..upto |-> ChunksOf(cands[i])])
                 /\ supports = Concat([i \in 1..(f - 1) |-> SupportsOf(cands[i])])

\* The second candidate cannot be traversed after the first one gave chunks
\* and supports.
C6_Witness ==
    /\ pc = "extracted"
    /\ warned
    /\ response.candidates.iterable
    /\ Len(response.candidates.elems) >= 2
    /\ ~BadCandidate(response.candidates.elems[1])
    /\ BadCandidate(response.candidates.elems[2])
    /\ chunks # <<>>
    /\ supports # <<>>

----------------------------------------------------------------------------
(* Properties of main()                                                    *)

Calls == run.calls

\* Topic t has an entry for the given call.
Called(t, call) == \E k \in 1..Len(Calls) : Calls[k].topic = t /\ Calls[k].call = call

\* Topic t's post call ended with the given outcome.
Posted(t, outcome) ==
    \E k \in 1..Len(Calls) : Calls[k] = Call(t, "post", outcome)

\* C7: any error of the history call, an API error or any other failure, is
\* caught in the History Reader, which returns an empty list; the run goes on
\* with an empty exclusion list to the topic's model call.
C7_HistoryErrorsAreCaught ==
    \A k \in 1..Len(Calls) :
        (Calls[k].call = "history" /\ Calls[k].outcome # "ok") =>
            IF k = Len(Calls)
            THEN pc = "model" /\ run.exclude_urls = <<>>
            ELSE Calls[k + 1].call = "model" /\ Calls[k + 1].topic = Calls[k].topic

\* C8: a failure of one external call for a topic does not prevent the
\* remaining topics from being processed: when main has returned, every topic
\* after the one of a failed call had its history fetch attempted.  Stated for
\* the runs in which no history call raised anything but an API error (the
\* other history failures are C7's).
C8_FailureDoesNotStopLaterTopics ==
    (pc = "done" /\ \A k \in 1..Len(Calls) :
                        Calls[k].call = "history" => Calls[k].outcome # "error")
        => \A k \in 1..Len(Calls) :
              Calls[k].outcome \in {"api_error", "error"} =>
                  \A t \in (Calls[k].topic + 1)..run.n_topics : Called(t, "history")

\* C9: a post that raises an API error makes post_news return False and not
\* raise; the loop goes on to the next topic (and, when nothing else fails,
\* through all topics); main then returns non-zero.  Main returns 0 exactly
\* when every topic's post succeeded.
C9_PostApiErrorIsPerTopicFailure ==
    /\ \A k \in 1..Len(Calls) :
          Calls[k] = Call(Calls[k].topic, "post", "api_error") =>
              /\ ~(run.raised /\ k = Len(Calls))
              /\ run.all_success = FALSE
              /\ k = Len(Calls) =>
                    (pc \in {"loop", "history", "done"} /\ run.topic = Calls[k].topic + 1)
    /\ pc = "done" =>
          /\ \A t \in 1..run.n_topics :
                Posted(t, "api_error") =>
                    /\ run.ret # 0
                    /\ t < run.n_topics => Called(t + 1, "history")
          /\ (\A k \in 1..Len(Calls) :
                 Calls[k].outcome = "api_error" \/ Calls[k].outcome \in {"ok", "none"})
                => \A t \in 1..run.n_topics :
                       Called(t, "history") /\ Called(t, "model") /\ Called(t, "post")
          /\ run.ret \in {0, 1}
          /\ run.ret = 0 <=> \A t \in 1..run.n_topics : Posted(t, "ok")

\* With three topics the post of the second raises an API error, the two other
\* posts succeed, and main has returned 1.
C9_Witness ==
    /\ pc = "done"
    /\ run.n_topics = 3
    /\ Posted(1, "ok")
    /\ Posted(2, "api_error")
    /\ Posted(3, "ok")
    /\ run.ret = 1
    /\ ~run.raised

\* The external and local calls made so far, the optional manga call left out.
NotManga(entry) == entry.call # "manga"
CoreCalls == SelectSeq(Calls, NotManga)

\* The k-th call of a run that goes through all topics.
CallOrder == <<"history", "model", "parse", "post">>
IdealTopic(k) == ((k - 1) \div 4) + 1
IdealCall(k) == CallOrder[((k - 1) % 4) + 1]

----------------------------------------------------------------------------
(* Properties of fetch_recent_urls and of the exclusion section            *)

\* t[i..j] is a bracketed hyperlink <URL|label> or <URL>: "<" at i, the next
\* ">" at j, and between them an http or https URL of at least one character
\* after the scheme, optionally followed by "|" and a label.
IsHyperlink(t, i, j) ==
    /\ i < j
    /\ t[i] = "<"
    /\ t[j] = ">"
    /\ \A k \in (i + 1)..(j - 1) : t[k] # ">"
    /\ \E scheme \in {Http \o SchemeEnd, Http \o <<"s">> \o SchemeEnd} :
          /\ OccursAt(t, scheme, i + 1)
          /\ i + Len(scheme) + 1 < j
          /\ t[i + Len(scheme) + 1] # "|"

\* The URL portion of the hyperlink t[i..j]: up to the first "|", if any.
UrlPortion(t, i, j) ==
    LET bars == {k \in (i + 1)..(j - 1) : t[k] = "|"}
    IN  IF bars = {}
        THEN SubSeq(t, i + 1, j - 1)
        ELSE SubSeq(t, i + 1, (CHOOSE k \in bars : \A l \in bars : k <= l) - 1)

\* The URL portions of the hyperlinks of t in order of occurrence; of
\* hyperlinks that end at the same ">" the leftmost one counts.
Hyperlinks(t) ==
    LET ClosedBy(i) == {j \in (i + 1)..Len(t) : IsHyperlink(t, i, j)}
        starts == {i \in 1..Len(t) :
                      \E j \in ClosedBy(i) : \A h \in 1..(i - 1) : ~IsHyperlink(t, h, j)}
    IN  [n \in 1..Cardinality(starts) |->
            LET i == NthOf(starts, n)
            IN  UrlPortion(t, i, CHOOSE j \in ClosedBy(i) : TRUE)]

IsSourceLine(element) ==
    element.type = "mrkdwn" /\ StartsWith(element.text, LinkGlyph)

\* The mrkdwn texts of the context blocks that begin with the link glyph, in
\* message, block and element order.
SourceLines(msgs) ==
    LET OfBlock(b) == IF b.type = "context"
                      THEN SelectSeq(b.elements, IsSourceLine)
                      ELSE <<>>
        OfMessage(m) == Concat([k \in 1..Len(m.blocks) |-> OfBlock(m.blocks[k])])
    IN  Concat([k \in 1..Len(msgs) |-> OfMessage(msgs[k])])

\* The hyperlink URLs of the source lines of the history, one per occurrence.
HistoryLinks(msgs) ==
    LET ls == SourceLines(msgs)
    IN  Concat([k \in 1..Len(ls) |-> Hyperlinks(ls[k].text)])

\* C11: after a successful history call the returned list is, in order of
\* occurrence, the URL portion of every bracketed hyperlink of the texts that
\* begin with the link glyph in blocks of type "context"; no entry holds a
\* label or a bracket, and section blocks and context texts without the glyph
\* at their start contribute nothing.
C11_UrlsOfSourceLinesOnly ==
    (pc \in {"fetched", "prompted"} /\ recent.outcome = "ok") =>
        /\ recent.urls = HistoryLinks(messages)
        /\ \A k \in 1..Len(recent.urls) :
              /\ OccursAt(recent.urls[k], Http, 1)
              /\ \A c \in Range(recent.urls[k]) : c \notin {"|", ">"}

\* A history read successfully that holds a section block whose text has a
\* hyperlink, a context text with a hyperlink but without the glyph at its
\* start, and a source line with two labelled hyperlinks; URLs are returned.
C11_Witness ==
    /\ pc = "fetched"
    /\ recent.outcome = "ok"
    /\ Len(recent.urls) >= 2
    /\ \E m \in 1..Len(messages) : \E b \in 1..Len(messages[m].blocks) :
          LET block == messages[m].blocks[b]
          IN  /\ block.type = "section"
              /\ Hyperlinks(block.text[1].text) # <<>>
    /\ \E m \in 1..Len(messages) : \E b \in 1..Len(messages[m].blocks) :
          LET block == messages[m].blocks[b]
          IN  /\ block.type = "context"
              /\ \E e \in 1..Len(block.elements) :
                    /\ ~StartsWith(block.elements[e].text, LinkGlyph)
                    /\ Hyperlinks(block.elements[e].text) # <<>>
    /\ \E m \in 1..Len(messages) : \E b \in 1..Len(messages[m].blocks) :
          LET block == messages[m].blocks[b]
          IN  /\ block.type = "context"
              /\ \E e \in 1..Len(block.elements) :
                    /\ IsSourceLine(block.elements[e])
                    /\ Len(Hyperlinks(block.elements[e].text)) >= 2
                    /\ Contains(block.elements[e].text, Bar)

\* The number of entries of a sequence equal to x.
Count(seq, x) == Cardinality({k \in 1..Len(seq) : seq[k] = x})

IsBullet(line) == OccursAt(line, <<"-", " ">>, 1)

\* The "- url" lines of an exclusion section.
BulletLines(section) == SelectSeq(Split(section, Newline), IsBullet)

NoRepetition(seq) == \A k, l \in 1..Len(seq) : k # l => seq[k] # seq[l]

\* C16 (as stated): a URL occurs at most once in the returned list and in the
\* exclusion section of the prompt.
C16_Original ==
    pc = "prompted" =>
        /\ NoRepetition(recent.urls)
        /\ NoRepetition(BulletLines(exclude_section))

\* C16 (amended): the returned list has one entry per occurrence of a URL in
\* the source lines of the history, and the exclusion section has one "- url"
\* line per entry of the list, in the same order; the section is empty exactly
\* when the list is.
C16_OneEntryPerOccurrence ==
    pc = "prompted" =>
        /\ recent.outcome = "ok" =>
              \A url \in Range(HistoryLinks(messages)) \cup Range(recent.urls) :
                  Count(recent.urls, url) = Count(HistoryLinks(messages), url)
        /\ BulletLines(exclude_section)
              = [k \in 1..Len(recent.urls) |-> <<"-", " ">> \o recent.urls[k]]
        /\ (exclude_section = <<>>) <=> (recent.urls = <<>>)

\* A prompt built from a history in which one URL occurs twice in one source
\* line and again in another message.
C16_Witness ==
    /\ pc = "prompted"
    /\ recent.outcome = "ok"
    /\ \E url \in Range(recent.urls) :
          /\ Count(recent.urls, url) >= 3
          /\ Count(BulletLines(exclude_section), <<"-", " ">> \o url) >= 3
          /\ \E m \in 1..Len(messages) : \E b \in 1..Len(messages[m].blocks) :
                \E e \in 1..Len(messages[m].blocks[b].elements) :
                    LET element == messages[m].blocks[b].elements[e]
                    IN  /\ IsSourceLine(element)
                        /\ Count(Hyperlinks(element.text), url) >= 2
          /\ \E m, n \in 1..Len(messages) :
                /\ m # n
                /\ url \in Range(HistoryLinks(<<messages[m]>>))
                /\ url \in Range(HistoryLinks(<<messages[n]>>))

----------------------------------------------------------------------------
(* Properties of _build_blocks                                             *)

IsSection(block) == block.type = "section"

\* shown renders orig under the cap: orig itself when it is within the cap,
\* else a prefix of orig followed by the ellipsis, no longer than the cap.
Rendered(orig, shown, cap) ==
    /\ Len(shown) <= cap
    /\ IF Len(orig) <= cap
       THEN shown = orig
       ELSE \E n \in 0..Len(orig) : shown = SubSeq(orig, 1, n) \o Ellipsis

\* C12: in the blocks built, the first block is the header and renders the
\* poster's header under the cap of 150; the section blocks are one per item,
\* in order, each rendering its item's text under the cap of 3000.
C12_TextsRenderedUnderCaps ==
    pc \in {"built", "posted", "not_posted", "raised"} =>
        LET sections == SelectSeq(blocks, IsSection)
        IN  /\ blocks[1].type = "header"
            /\ \A b \in 2..Len(blocks) : blocks[b].type # "header"
            /\ Rendered(header, blocks[1].text[1].text, 150)
            /\ Len(sections) = Len(items)
            /\ \A k \in 1..Len(sections) :
                  Rendered(items[k].text, sections[k].text[1].text, 3000)

\* Blocks built from a header longer than 150, an item longer than 3000 and
\* an item of exactly 3000 characters.
C12_Witness ==
    /\ pc = "built"
    /\ Len(header) > 150
    /\ Len(blocks[1].text[1].text) = 150
    /\ \E k \in 1..Len(items) : Len(items[k].text) > 3000
    /\ \E k \in 1..Len(items) : Len(items[k].text) = 3000
    /\ \E b \in 1..Len(blocks) :
          /\ blocks[b].type = "section"
          /\ SubSeq(blocks[b].text[1].text, 2998, 3000) = Ellipsis

====
